---- MODULE Spec2Model ----
(***************************************************************************)
(* A model of src/map.py: the MapModel renderer of Taiwan county and town  *)
(* maps.  Coordinates and data values are integers; every quantity a       *)
(* plotting-library call may rescale (axis limits, colorbar range) is kept *)
(* in hundredths so that the library's 5% / 10% expansion of a singular    *)
(* range is exact.                                                         *)
(***************************************************************************)
EXTENDS Integers, Sequences, FiniteSets, TLC

(* ---------------------------- bounds ----------------------------------- *)
MaxDraws == 2          \* draw calls made on one renderer
MaxRows == 2           \* rows of a dataset of the single data-driven call
MaxNeg == 1            \* its column values are -MaxNeg..WideMax and
WideMax == 6           \*   1000..1000+WideMax
MaxSpan == 1           \* extent tables on disk: box spans 1..MaxSpan

\* Python's None: as a string argument, and as an object reference.
None == "None"
NoneObj == [type |-> "NoneType"]

Abs(n) == IF n < 0 THEN 0 - n ELSE n
Min2(a, b) == IF a <= b THEN a ELSE b
Max2(a, b) == IF a >= b THEN a ELSE b

(* ------------------------- input files --------------------------------- *)
CountyShp == "shp/COUNTY_MOI_1090820.shp"
TownShp == "shp/TOWN_MOI_1120825.shp"
FontFile == "font/Urbanist-VariableFont_wght.ttf"
MapRangeJson == "config/map_range.json"
StyleJson == "config/style.json"

Files == {CountyShp, TownShp, FontFile, MapRangeJson, StyleJson}
FileStatus == {"ok", "absent", "malformed"}

\* The seven region keys, in the order of the list _set_subset_map_range returns.
Regions ==
  <<"taiwan", "penghu", "kinmen", "kinmen_wuqiu",
    "lienchiang", "lienchiang_dongyin", "lienchiang_juguang">>

RegionSet == {Regions[i] : i \in 1..Len(Regions)}

RegionIndex(r) == CHOOSE i \in 1..Len(Regions) : Regions[i] = r

\* Extent tables a well-formed map_range.json can hold: seven keys, each a
\* box with min < max on both axes, the boxes of different regions and the
\* two axes of one box all different.
ExtentTable(span) ==
  [r \in RegionSet |->
     [min_x |-> 3 * RegionIndex(r),
      max_x |-> 3 * RegionIndex(r) + span,
      min_y |-> 40 + 2 * RegionIndex(r),
      max_y |-> 40 + 2 * RegionIndex(r) + span + 1]]

ExtentTables == {ExtentTable(span) : span \in 1..MaxSpan}

\* A well-formed style.json: the "default" style.
StyleTable == [default |-> [width |-> 10, height |-> 10, dpi |-> 100]]

CountyGeometries == <<"county_A", "county_B">>
TownGeometries == <<"town_A1", "town_A2", "town_B1">>

VARIABLES
  files,      \* status of the five input files under the working directory
  disk,       \* the extent table map_range.json holds when it is well formed
  ctor,       \* "pending" | "returned" | "raised": outcome of MapModel()
  model,      \* the MapModel object the caller holds, or NoneObj
  figs,       \* the Figure objects allocated so far, by object identity
  gcf,        \* pyplot's current figure (index into figs), 0 when none
  calls       \* the draw calls made so far: arguments and outcome

vars == <<files, disk, ctor, model, figs, gcf, calls>>

(* ------------------------- __init__ ------------------------------------ *)
\* gpd.read_file / open + json.load raise unless the file is present and well formed.
Readable(f) == files[f] = "ok"

\* FontProperties(fname=...) only records the path; the font file is not
\* opened until text is rendered.
FontProperties(fname) == [file |-> fname, size |-> "medium"]

\* Variant: the style table is not read at construction.
InitReads_no_style == <<CountyShp, TownShp, MapRangeJson>>

\* The files whose reading __init__ performs, in order; the first unreadable
\* one raises out of the constructor.
InitReads == <<CountyShp, TownShp, MapRangeJson, StyleJson>>

InitRaises == \E i \in 1..Len(InitReads) : ~Readable(InitReads[i])

NewModel ==
  [crs |-> "WGS84",
   county_gdf |-> CountyGeometries,
   town_gdf |-> TownGeometries,
   font |-> FontProperties(FontFile),
   map_range |-> disk,
   style_list |-> StyleTable]

Construct ==
  /\ ctor = "pending"
  /\ IF InitRaises
       THEN ctor' = "raised" /\ model' = NoneObj
       ELSE ctor' = "returned" /\ model' = NewModel
  /\ UNCHANGED <<files, disk, figs, gcf, calls>>

(* ------------------------- library calls ------------------------------- *)
Hundredths(v) == 100 * v

\* matplotlib.transforms.nonsingular on hundredths: a range of zero width is
\* widened by the fraction expander (itself in hundredths) of its endpoints,
\* or to (-expander, expander) around zero; any other range is returned sorted.
Nonsingular(vmin, vmax, expander) ==
  LET lo == Min2(vmin, vmax)
      hi == Max2(vmin, vmax)
  IN IF hi - lo > 0 THEN <<lo, hi>>
     ELSE IF lo = 0 THEN <<0 - expander, expander>>
     ELSE <<lo - (expander * Abs(lo)) \div 100, hi + (expander * Abs(hi)) \div 100>>

\* Axes.set_xlim / set_ylim(left, right): the limits pass through the
\* locator's nonsingular (expander 0.05) and keep the order given.
SetLim(left, right) ==
  LET r == Nonsingular(Hundredths(left), Hundredths(right), 5)
  IN IF left > right THEN <<r[2], r[1]>> ELSE r

\* The Axes plt.subplots creates: unit view limits, automatic ticks.
NewAxes(bounds) ==
  [bounds |-> bounds,
   xlim |-> <<0, 100>>,
   ylim |-> <<0, 100>>,
   xticks |-> "auto",
   yticks |-> "auto",
   axis |-> "on",
   layers |-> <<>>]

\* plt.subplots(figsize=(width, height), dpi=dpi): a new Figure object with
\* one Axes becomes pyplot's current figure.
NewFigure(style) ==
  [figsize |-> <<style.width, style.height>>,
   dpi |-> style.dpi,
   axes |-> <<NewAxes("subplot")>>,
   colorbars |-> <<>>]

(* ------------------------- layout builder ------------------------------ *)
\* Inset rectangles in thousandths of the parent axes, list positions 2..7.
InsetBounds ==
  <<<<20, 250, 250, 400>>,
    <<20, 580, 250, 250>>,
    <<220, 690, 60, 60>>,
    <<20, 734, 250, 250>>,
    <<220, 870, 60, 60>>,
    <<220, 800, 60, 60>>>>

\* Variant: the y range of the box is applied to the x axis and vice versa.
_inset_zoom_in_map_swapped(bounds, zoom_in_range) ==
  [NewAxes(bounds) EXCEPT
     !.xlim = SetLim(zoom_in_range.min_y, zoom_in_range.max_y),
     !.ylim = SetLim(zoom_in_range.min_x, zoom_in_range.max_x),
     !.xticks = "none",
     !.yticks = "none"]

_inset_zoom_in_map(bounds, zoom_in_range) ==
  [NewAxes(bounds) EXCEPT
     !.xlim = SetLim(zoom_in_range.min_x, zoom_in_range.max_x),
     !.ylim = SetLim(zoom_in_range.min_y, zoom_in_range.max_y),
     !.xticks = "none",
     !.yticks = "none"]

_set_subset_map_range(ax, map_range) ==
  [i \in 1..Len(Regions) |->
     IF i = 1
       THEN [ax EXCEPT
               !.xlim = SetLim(map_range["taiwan"].min_x, map_range["taiwan"].max_x),
               !.ylim = SetLim(map_range["taiwan"].min_y, map_range["taiwan"].max_y)]
       ELSE _inset_zoom_in_map(InsetBounds[i - 1], map_range[Regions[i]])]

(* ------------------------- plotting ------------------------------------ *)
\* Default z-orders of the collections geopandas creates.
PatchZorder == 1
LineZorder == 2

\* GeoSeries.boundary.plot(ax=axes, ...): one line layer on the axes.
BoundaryPlot(axes, artist, geoms, zorder) ==
  [axes EXCEPT !.layers =
     Append(@, [artist |-> artist, geoms |-> geoms, column |-> None,
                cmap |-> None, zorder |-> zorder])]

\* gdf.plot(ax=axes, column=col, cmap=cmap, ...) raises KeyError when the
\* dataset has no column named col (and AttributeError when gdf is None).
GdfPlotRaises(gdf, col) == gdf = NoneObj \/ col \notin DOMAIN gdf.data

GdfPlot(axes, gdf, col, cmap, zorder) ==
  [axes EXCEPT !.layers =
     Append(@, [artist |-> "fill", geoms |-> "gdf", column |-> col,
                cmap |-> cmap, zorder |-> zorder])]

\* Series.min() / Series.max() of a non-empty numeric column.
ColMin(rows) == CHOOSE v \in {rows[i] : i \in 1..Len(rows)} :
                   \A j \in 1..Len(rows) : v <= rows[j]
ColMax(rows) == CHOOSE v \in {rows[i] : i \in 1..Len(rows)} :
                   \A j \in 1..Len(rows) : v >= rows[j]

(* ------------------------- colorbar ------------------------------------ *)
\* Tick arithmetic is done in units of 1e-5 so that every candidate step of
\* the locator is an integer.
Fine(h) == 1000 * h

\* MaxNLocator(nbins=6): at most nbins intervals.
NBins == 6

\* MaxNLocator's extended staircase of step multipliers, in hundredths:
\* 0.1 .. 0.8, 1 .. 10, 15.
ExtendedSteps ==
  <<10, 15, 20, 25, 30, 40, 50, 60, 80,
    100, 150, 200, 250, 300, 400, 500, 600, 800, 1000, 1500>>

\* The largest power of ten p with p * d <= n (for 0 < d <= n).
RECURSIVE Pow10Floor(_, _)
Pow10Floor(n, d) == IF d <= n \div 10 THEN 10 * Pow10Floor(n, 10 * d) ELSE 1

CeilDiv(a, b) == 0 - ((0 - a) \div b)

\* ticker.scale_range(vmin, vmax, n, threshold=100): the decade of dv / n and
\* the offset taken out of a range that is narrow relative to its mean.
ScaleRange(vmin, vmax, n) ==
  LET dv == Abs(vmax - vmin)
      sum == vmax + vmin
  IN [scale |-> Pow10Floor(dv, n),
      offset |-> IF Abs(sum) \div 200 < dv THEN 0
                 ELSE IF sum < 0 THEN 0 - Pow10Floor(Abs(sum), 2)
                 ELSE Pow10Floor(Abs(sum), 2)]

\* Variant: the edge ticks just outside the view are kept.
TicksInView_edges(vmin, vmax, step) ==
  {k * step : k \in (CeilDiv(vmin, step) - 1)..((vmax \div step) + 1)}

\* The multiples of step (counted from offset) that lie inside [vmin, vmax].
TicksInView(vmin, vmax, step) ==
  {k * step : k \in CeilDiv(vmin, step)..(vmax \div step)}

\* MaxNLocator._raw_ticks restricted to the view interval: start from the
\* smallest candidate step that needs at most nbins intervals and fall back
\* to smaller steps until at least two ticks are inside the view.
MaxNLocatorTicks(vmin, vmax, nbins) ==
  LET sr == ScaleRange(vmin, vmax, nbins)
      lo == vmin - sr.offset
      hi == vmax - sr.offset
      step(i) == ExtendedSteps[i] * (sr.scale \div 100)
      large == {i \in 1..Len(ExtendedSteps) : step(i) * nbins >= hi - lo}
      istep == IF large = {} THEN Len(ExtendedSteps)
               ELSE CHOOSE i \in large : \A j \in large : i <= j
      enough == {i \in 1..istep : Cardinality(TicksInView(lo, hi, step(i))) >= 2}
      chosen == IF enough = {} THEN 1
                ELSE CHOOSE i \in enough : \A j \in enough : i >= j
  IN {t + sr.offset : t \in TicksInView(lo, hi, step(chosen))}

\* Text.set_fontproperties stores a copy of the FontProperties; tick_params
\* (labelsize=12) then sizes the label's own copy.
TickLabelFont(font) == [font EXCEPT !.size = "12"]

\* Variant: the labels share the renderer's FontProperties object, so sizing
\* them resizes it.
FontAfterLabels_shared(font) == [font EXCEPT !.size = "12"]

\* self.font after the tick labels were given it: each label took a copy, so
\* sizing the labels leaves the renderer's FontProperties as it was.
FontAfterLabels(font) == font

\* _colorbar(ax, vmin, vmax, cmap): the colorbar plt.colorbar builds.  The
\* Colorbar widens a singular norm by 10% (nonsingular, expander 0.1); the
\* ticks are those MaxNLocator(nbins=6) places within that range.
_colorbar(vmin, vmax, cmap, font) ==
  LET r == Nonsingular(Hundredths(vmin), Hundredths(vmax), 10)
  IN [cmap |-> cmap,
      vmin |-> r[1],
      vmax |-> r[2],
      orientation |-> "vertical",
      label_font |-> TickLabelFont(font),
      format |-> "{:,.0f}",
      ticks |-> MaxNLocatorTicks(Fine(r[1]), Fine(r[2]), NBins)]

\* Variant: the colorbar is attached twice.
PltColorbar_twice(heap, current, cbar) ==
  [heap EXCEPT ![current].colorbars = Append(Append(@, cbar), cbar)]

\* plt.colorbar(sm, ax=ax, ...) adds the colorbar to pyplot's current figure.
PltColorbar(heap, current, cbar) ==
  [heap EXCEPT ![current].colorbars = Append(@, cbar)]

(* ------------------------- draw entry points --------------------------- *)
\* Variant: plt.subplots(num=1, clear=True): the first figure is reused.
PltSubplots_reuse(heap, style) ==
  IF heap = <<>>
    THEN [figs |-> <<NewFigure(style)>>, fig |-> 1, gcf |-> 1]
    ELSE [figs |-> [heap EXCEPT ![1] = NewFigure(style)], fig |-> 1, gcf |-> 1]

\* plt.subplots: allocate a Figure object and make it the current figure.
PltSubplots(heap, style) ==
  [figs |-> Append(heap, NewFigure(style)), fig |-> Len(heap) + 1,
   gcf |-> Len(heap) + 1]

\* Variant: another default scheme.
CmapOrDefault_viridis(cmap) ==
  IF cmap # None /\ cmap # "" THEN cmap ELSE "viridis"

\* cmap = cmap if cmap else "YlGn"
CmapOrDefault(cmap) == IF cmap # None /\ cmap # "" THEN cmap ELSE "YlGn"

\* Variant: any([...]) in place of all([...]).
HasData_any(gdf, col) == gdf # NoneObj \/ col # None

\* Variant: a column the dataset lacks is treated as no column at all.
HasData_col_present(gdf, col) ==
  gdf # NoneObj /\ col # None /\ col \in DOMAIN gdf.data

\* all([gdf is not None, col is not None])
HasData(gdf, col) == gdf # NoneObj /\ col # None

\* The state a draw call leaves: the renderer object, the figure heap,
\* pyplot's current figure, and what the caller gets ("returned" with the
\* figure and its main axes, or "raised").
DrawResult(self, heap, current, outcome, fig) ==
  [self |-> self, figs |-> heap, gcf |-> current, outcome |-> outcome,
   fig |-> fig]

WithAxes(heap, fig, axes) == [heap EXCEPT ![fig].axes = axes]

draw_counties_map(self, heap, gdf, col, cmap) ==
  LET style == self.style_list["default"]
      sub == PltSubplots(heap, style)
      fig == sub.fig
      ax == [sub.figs[fig].axes[1] EXCEPT !.axis = "off"]
      subset_axes == _set_subset_map_range(ax, self.map_range)
      laid == WithAxes(sub.figs, fig, subset_axes)
  IN IF HasData(gdf, col)
       THEN LET cm == CmapOrDefault(cmap)
                drawn == [i \in 1..Len(subset_axes) |->
                            BoundaryPlot(
                              GdfPlot(subset_axes[i], gdf, col, cm, PatchZorder),
                              "county_boundary", self.county_gdf, LineZorder)]
            IN IF GdfPlotRaises(gdf, col)
                 THEN DrawResult(self, laid, sub.gcf, "raised", 0)
                 ELSE DrawResult([self EXCEPT !.font = FontAfterLabels(@)],
                        PltColorbar(WithAxes(sub.figs, fig, drawn), sub.gcf,
                          _colorbar(ColMin(gdf.data[col]), ColMax(gdf.data[col]), cm, self.font)),
                        sub.gcf, "returned", fig)
       ELSE DrawResult(self,
              WithAxes(sub.figs, fig,
                [i \in 1..Len(subset_axes) |->
                   BoundaryPlot(subset_axes[i], "county_boundary",
                                self.county_gdf, LineZorder)]),
              sub.gcf, "returned", fig)

\* Variant: the zorder arguments are left out, so the library defaults apply.
TownsZorder_default ==
  [town |-> LineZorder, fill |-> PatchZorder, county |-> LineZorder]

\* The zorder arguments of the three plot calls of the data-driven towns map.
TownsZorder == [town |-> 1, fill |-> 2, county |-> 3]

draw_towns_map(self, heap, gdf, col, cmap) ==
  LET style == self.style_list["default"]
      sub == PltSubplots(heap, style)
      fig == sub.fig
      ax == [sub.figs[fig].axes[1] EXCEPT !.axis = "off"]
      subset_axes == _set_subset_map_range(ax, self.map_range)
  IN IF HasData(gdf, col)
       THEN LET cm == CmapOrDefault(cmap)
                towns(a) == BoundaryPlot(a, "town_boundary", self.town_gdf,
                                         TownsZorder.town)
                drawn == [i \in 1..Len(subset_axes) |->
                            BoundaryPlot(
                              GdfPlot(towns(subset_axes[i]), gdf, col, cm,
                                      TownsZorder.fill),
                              "county_boundary", self.county_gdf,
                              TownsZorder.county)]
            IN IF GdfPlotRaises(gdf, col)
                 THEN \* the town outlines of the first axes are already drawn
                      DrawResult(self,
                        WithAxes(sub.figs, fig,
                          [subset_axes EXCEPT ![1] = towns(@)]),
                        sub.gcf, "raised", 0)
                 ELSE DrawResult([self EXCEPT !.font = FontAfterLabels(@)],
                        PltColorbar(WithAxes(sub.figs, fig, drawn), sub.gcf,
                          _colorbar(ColMin(gdf.data[col]), ColMax(gdf.data[col]), cm, self.font)),
                        sub.gcf, "returned", fig)
       ELSE DrawResult(self,
              WithAxes(sub.figs, fig,
                [i \in 1..Len(subset_axes) |->
                   BoundaryPlot(
                     BoundaryPlot(subset_axes[i], "town_boundary",
                                  self.town_gdf, LineZorder),
                     "county_boundary", self.county_gdf, LineZorder)]),
              sub.gcf, "returned", fig)

(* ------------------------- caller inputs ------------------------------- *)
GeoDataFrame(data) == [type |-> "GeoDataFrame", data |-> data]

\* Caller-supplied datasets: non-empty, one numeric column "pop".
DatasetsOver(vals, maxrows) ==
  {GeoDataFrame([c \in {"pop"} |-> rows]) :
     rows \in UNION {[1..n -> vals] : n \in 1..maxrows}}

\* The dataset of the call sequences: one row.
GdfArgs == {NoneObj} \cup DatasetsOver({WideMax}, 1)

\* Datasets of the single data-driven call: up to MaxRows rows, values
\* around zero and values far from zero relative to their spread.
WideValues == ((0 - MaxNeg)..WideMax) \cup {1000 + v : v \in 0..WideMax}
WideGdfArgs == DatasetsOver(WideValues, MaxRows)

ColArgs == {None, "pop", "area"}
CmapArgs == {None, "viridis"}

Call(fn, gdf, col, cmap, r) ==
  [fn |-> fn, gdf |-> gdf, col |-> col, cmap |-> cmap,
   outcome |-> r.outcome, fig |-> r.fig]

CanDraw(limit) == ctor = "returned" /\ Len(calls) < limit

Apply(fn, gdf, col, cmap, r) ==
  /\ model' = r.self
  /\ figs' = r.figs
  /\ gcf' = r.gcf
  /\ calls' = Append(calls, Call(fn, gdf, col, cmap, r))
  /\ UNCHANGED <<files, disk, ctor>>

DrawCounties(gdfs, cols, limit) ==
  /\ CanDraw(limit)
  /\ \E gdf \in gdfs, col \in cols, cmap \in CmapArgs :
       Apply("draw_counties_map", gdf, col, cmap,
             draw_counties_map(model, figs, gdf, col, cmap))

DrawTowns(gdfs, cols, limit) ==
  /\ CanDraw(limit)
  /\ \E gdf \in gdfs, col \in cols, cmap \in CmapArgs :
       Apply("draw_towns_map", gdf, col, cmap,
             draw_towns_map(model, figs, gdf, col, cmap))

DrawCountiesMap == DrawCounties(GdfArgs, ColArgs, MaxDraws)

DrawTownsMap == DrawTowns(GdfArgs, ColArgs, MaxDraws)

DefaultCountiesMap ==
  /\ CanDraw(MaxDraws)
  /\ Apply("default_counties_map", NoneObj, None, None,
           draw_counties_map(model, figs, NoneObj, None, None))

DefaultTownsMap ==
  /\ CanDraw(MaxDraws)
  /\ Apply("default_towns_map", NoneObj, None, None,
           draw_towns_map(model, figs, NoneObj, None, None))

\* One data-driven call on a fresh renderer, over the wide datasets.
DataCountiesMap == DrawCounties(WideGdfArgs, {"pop"}, 1)

DataTownsMap == DrawTowns(WideGdfArgs, {"pop"}, 1)

Init ==
  /\ files \in [Files -> FileStatus]
  /\ disk \in ExtentTables
  /\ ctor = "pending"
  /\ model = NoneObj
  /\ figs = <<>>
  /\ gcf = 0
  /\ calls = <<>>

Next ==
  \/ Construct
  \/ DrawCountiesMap
  \/ DefaultCountiesMap
  \/ DrawTownsMap
  \/ DefaultTownsMap

Spec == Init /\ [][Next]_vars

NextData ==
  \/ Construct
  \/ DataCountiesMap
  \/ DataTownsMap

SpecData == Init /\ [][NextData]_vars

(* ========================= properties ================================== *)
CallIds == 1..Len(calls)

Supplied(k) == calls[k].gdf # NoneObj /\ calls[k].col # None

ColumnPresent(k) == calls[k].col \in DOMAIN calls[k].gdf.data

RowsOf(k) == calls[k].gdf.data[calls[k].col]

IsLeast(v, rows) ==
  (\E i \in 1..Len(rows) : rows[i] = v) /\ (\A i \in 1..Len(rows) : v <= rows[i])

IsGreatest(v, rows) ==
  (\E i \in 1..Len(rows) : rows[i] = v) /\ (\A i \in 1..Len(rows) : v >= rows[i])

Artists(axes) == [i \in 1..Len(axes.layers) |-> axes.layers[i].artist]

CountiesFns == {"draw_counties_map", "default_counties_map"}

\* C1: every figure a draw call lays out has seven surfaces, and the surface
\* at each region's list position shows exactly (min_x, max_x) by
\* (min_y, max_y) of that region's entry in the extent table.
C1_ViewportsMatchExtents ==
  ctor = "returned" =>
    \A f \in 1..Len(figs) :
      /\ Len(figs[f].axes) = Len(Regions)
      /\ \A i \in 1..Len(Regions) :
           LET box == model.map_range[Regions[i]]
           IN /\ figs[f].axes[i].xlim = <<100 * box.min_x, 100 * box.max_x>>
              /\ figs[f].axes[i].ylim = <<100 * box.min_y, 100 * box.max_y>>

C1_Witness ==
  /\ Len(figs) >= 1
  /\ Len(figs[1].axes) = 7
  /\ figs[1].axes[2].bounds = <<20, 250, 250, 400>>
  /\ figs[1].axes[7].bounds = <<220, 800, 60, 60>>

C3_OutlinesOnly ==
  \A k \in CallIds :
    ~Supplied(k) =>
      /\ calls[k].outcome = "returned"
      /\ calls[k].fig \in 1..Len(figs)
      /\ figs[calls[k].fig].colorbars = <<>>
      /\ Len(figs[calls[k].fig].axes) = 7
      /\ \A i \in 1..7 :
           Artists(figs[calls[k].fig].axes[i]) =
             IF calls[k].fn \in CountiesFns
               THEN <<"county_boundary">>
               ELSE <<"town_boundary", "county_boundary">>

C3_Witness ==
  /\ \E k \in CallIds :
       /\ calls[k].gdf # NoneObj /\ calls[k].col = None /\ calls[k].cmap = "viridis"
       /\ calls[k].outcome = "returned"
  /\ \E k \in CallIds :
       /\ calls[k].fn = "default_towns_map"
       /\ Len(figs[calls[k].fig].axes[3].layers) = 2

\* Layer a of a surface is drawn over layer b: higher zorder, or the same
\* zorder and added later.
Over(layers, a, b) ==
  \/ layers[a].zorder > layers[b].zorder
  \/ layers[a].zorder = layers[b].zorder /\ a > b

\* C4: in the figure a data-driven draw_towns_map call returns, every one of
\* the seven surfaces stacks town outlines below the fill below county outlines.
C4_TownsStacking ==
  \A k \in CallIds :
    (calls[k].fn = "draw_towns_map" /\ Supplied(k) /\ calls[k].outcome = "returned") =>
      \A i \in 1..7 :
        LET layers == figs[calls[k].fig].axes[i].layers
        IN /\ Len(layers) = 3
           /\ \E t, f, c \in 1..3 :
                /\ layers[t].artist = "town_boundary"
                /\ layers[f].artist = "fill"
                /\ layers[c].artist = "county_boundary"
                /\ Over(layers, f, t)
                /\ Over(layers, c, f)

C4_Witness ==
  \E k \in CallIds :
    /\ calls[k].fn = "draw_towns_map" /\ Supplied(k)
    /\ calls[k].outcome = "returned"
    /\ figs[calls[k].fig].axes[7].layers[2].artist = "fill"

\* C5 as stated: every colorbar shows at most 6 ticks.
C5_Original ==
  \A f \in 1..Len(figs) :
    \A c \in 1..Len(figs[f].colorbars) :
      Cardinality(figs[f].colorbars[c].ticks) <= 6

\* C5 amended: every colorbar shows at most 7 ticks (6 intervals).
C5_AtMostSevenTicks ==
  \A f \in 1..Len(figs) :
    \A c \in 1..Len(figs[f].colorbars) :
      Cardinality(figs[f].colorbars[c].ticks) <= 7

C5_Witness ==
  \E f \in 1..Len(figs) :
    /\ Len(figs[f].colorbars) = 1
    /\ Cardinality(figs[f].colorbars[1].ticks) = 7

\* C6: a draw call with a dataset and a column name the dataset lacks raises;
\* the caller gets no figure.
C6_MissingColumnRaises ==
  \A k \in CallIds :
    (Supplied(k) /\ ~ColumnPresent(k)) =>
      (calls[k].outcome = "raised" /\ calls[k].fig = 0)

C6_Witness ==
  \E k \in CallIds :
    /\ Supplied(k) /\ calls[k].col = "area"
    /\ calls[k].outcome = "raised"

BadFiles == {f \in Files : files[f] # "ok"}

\* C7 as stated: construction raises whenever any of the five input files is
\* absent or malformed.
C7_Original ==
  ctor # "pending" => (BadFiles # {} => (ctor = "raised" /\ model = NoneObj))

\* C7 amended: construction raises exactly when one of the four files other
\* than the font file is absent or malformed, and then no renderer is
\* obtained; the state of the font file does not affect construction.
C7_ConstructionFailsOnFourFiles ==
  ctor # "pending" =>
    /\ ctor = "raised" <=> (BadFiles \ {FontFile}) # {}
    /\ ctor = "raised" => model = NoneObj
    /\ ctor = "returned" => model # NoneObj

C7_Witness ==
  /\ ctor = "raised"
  /\ BadFiles = {StyleJson}
  /\ files[StyleJson] = "malformed"

\* C8: no draw call changes the reference data of a constructed renderer.
C8_ReferenceDataUnchanged ==
  [][ctor = "returned" =>
       /\ model'.county_gdf = model.county_gdf
       /\ model'.town_gdf = model.town_gdf
       /\ model'.font = model.font
       /\ model'.map_range = model.map_range
       /\ model'.style_list = model.style_list]_vars

C8_Witness ==
  /\ Len(calls) >= 2
  /\ \E k \in CallIds : calls[k].outcome = "raised"
  /\ \E k \in CallIds :
       /\ Supplied(k) /\ calls[k].outcome = "returned"
       /\ figs[calls[k].fig].colorbars[1].label_font.size = "12"
  /\ model.font.size = "medium"

\* C9: a draw call allocates one new figure and leaves every figure allocated
\* before it as it was; the figure it returns is the new one.
C9_FreshFigure ==
  [][Len(calls') > Len(calls) =>
       /\ Len(figs') = Len(figs) + 1
       /\ \A f \in 1..Len(figs) : figs'[f] = figs[f]
       /\ calls'[Len(calls')].fig \in {0, Len(figs')}
       /\ \A k \in CallIds :
            calls'[k] = calls[k] /\ calls[k].fig # Len(figs')]_vars

C9_Witness ==
  /\ Len(calls) >= 2
  /\ calls[1].outcome = "returned"
  /\ calls[2].outcome = "returned"
  /\ calls[1].fig # calls[2].fig
  /\ figs[calls[1].fig].colorbars = <<>>
  /\ Len(figs[calls[2].fig].colorbars) = 1

\* C10: in the figure a data-driven draw call returns, the fill of all seven
\* surfaces and the colorbar use "YlGn" when no color-scale name was given,
\* and the given name otherwise.
C10_ColorScheme ==
  \A k \in CallIds :
    (Supplied(k) /\ calls[k].outcome = "returned") =>
      LET scheme == IF calls[k].cmap = None THEN "YlGn" ELSE calls[k].cmap
          fig == figs[calls[k].fig]
      IN /\ \A i \in 1..7 :
              \E l \in 1..Len(fig.axes[i].layers) :
                /\ fig.axes[i].layers[l].artist = "fill"
                /\ fig.axes[i].layers[l].cmap = scheme
         /\ Len(fig.colorbars) >= 1
         /\ \A c \in 1..Len(fig.colorbars) : fig.colorbars[c].cmap = scheme

C10_Witness ==
  /\ \E k \in CallIds :
       /\ Supplied(k) /\ calls[k].outcome = "returned" /\ calls[k].cmap = None
       /\ figs[calls[k].fig].colorbars[1].cmap = "YlGn"
  /\ \E k \in CallIds :
       /\ Supplied(k) /\ calls[k].outcome = "returned"
       /\ calls[k].cmap = "viridis"
====
